---- MODULE Spec2Model ----
(***************************************************************************)
(* Model of src/main.py: the ASVZ enrollment script.                       *)
(*                                                                         *)
(* The main path fetches the lesson info, computes the wait until the      *)
(* enrollment opens, sleeps, optionally starts one daemon thread that      *)
(* sends a pre-request (attempt 0), then runs retry_enrollment until an    *)
(* attempt returns 201 or the time budget is used up.                      *)
(*                                                                         *)
(* Time is an integer number of milliseconds.  The clock advances only in  *)
(* the blocking calls of the main path (requests.get, time.sleep,          *)
(* requests.post); the steps of the daemon thread happen at whatever the   *)
(* clock shows when they are scheduled.                                    *)
(***************************************************************************)
EXTENDS Integers, Sequences, FiniteSets, TLC

\* ------------------------------------------------------------------ constants
\* main.py:11, seconds
MAX_RETRY_DURATION == 5
\* main.py:12, milliseconds
PRE_REQUEST_OFFSET_MS == 250

\* seconds -> milliseconds (the model's clock unit)
Ms(seconds) == seconds * 1000

\* ------------------------------------------------------------------ bounds
\* Attempts numbered above this take a slow round trip (keeps the loop finite).
MaxFastAttempts == 3

\* Round-trip times of one enrollment POST, ms.
Latencies == {0, 3000}
\* Round-trip times of the lesson-info GET, ms.
FetchLatencies == {0, 125}
\* How much longer than requested a time.sleep may last, ms.
SleepJitter == {0, 125}
\* enrollmentFrom instants the server may report, ms on the model's clock.
EnrollmentFromSet == {0, 125, 250, 375, 500}
\* Status codes of the lesson-info GET.
FetchStatuses == {200, 204, 404, 500}
\* max_duration arguments retry_enrollment is exercised with on its own, ms.
Durations == {0, Ms(MAX_RETRY_DURATION)}

\* ------------------------------------------------------------------ responses
\* Shapes of a response body, by what response.json() makes of it.
Bodies ==
    { "not_json",           \* not JSON at all
      "obj_no_errors",      \* {}
      "obj_errors_empty",   \* {"errors": []}
      "obj_errors_msg",     \* {"errors": [{"message": "..."}]}
      "obj_errors_nomsg",   \* {"errors": [{"code": 1}]}
      "obj_errors_nonobj",  \* {"errors": ["too early"]}
      "obj_errors_dict",    \* {"errors": {"message": "..."}}
      "array",              \* [1, 2]
      "string",             \* "abc"
      "number",             \* 5
      "null" }              \* null

\* What requests.post can produce: an HTTP response or a transport exception.
Responses ==
    { [kind |-> "http", status |-> 201, body |-> "obj_no_errors"] }
    \cup [kind : {"http"}, status : {422, 500}, body : Bodies]
    \cup { [kind |-> "exception", status |-> 0, body |-> "null"] }

NoResponse == [kind |-> "none", status |-> 0, body |-> "null"]

\* ------------------------------------------------------------------ enroll_in_lesson
\* response.json(): raises ValueError on a body that is not JSON.
JsonRaises(body) == body = "not_json"

\* `"errors" in error_data`: membership on a dict / list / str, TypeError on
\* an int or None.
InErrors(body) ==
    CASE body \in {"number", "null"} -> "TypeError"
      [] body \in {"obj_errors_empty", "obj_errors_msg", "obj_errors_nomsg",
                   "obj_errors_nonobj", "obj_errors_dict"} -> "True"
      [] OTHER -> "False"

\* truthiness of error_data["errors"]
ErrorsTruthy(body) == body # "obj_errors_empty"

\* error_data['errors'][0]['message']
FirstMessage(body) ==
    CASE body = "obj_errors_msg" -> "ok"
      [] body = "obj_errors_nomsg" -> "KeyError"     \* no 'message' key
      [] body = "obj_errors_dict" -> "KeyError"      \* errors[0] on a dict
      [] OTHER -> "TypeError"                        \* str['message']

\* The inner try block (lines 60-63): what it prints or which exception it raises.
InnerTry(body) ==
    IF JsonRaises(body) THEN "ValueError"
    ELSE IF InErrors(body) = "TypeError" THEN "TypeError"
    ELSE IF InErrors(body) = "True" /\ ErrorsTruthy(body)
         THEN (IF FirstMessage(body) = "ok" THEN "message" ELSE FirstMessage(body))
         ELSE "nothing"

\* `except (ValueError, KeyError)` (line 64)
InnerCaught(e) == e \in {"ValueError", "KeyError"}

\* Mutant of OuterCaught: only transport errors are caught
\* (except requests.RequestException).
OuterCaught_RequestsOnly(e) == e = "transport"

\* `except Exception` (line 67)
OuterCaught(e) == e \in {"TypeError", "transport"}

\* Mutant of Created: the success test compares with 200 (OK), not 201.
Created_Ok200(resp) == resp.status = 200

\* line 55
Created(resp) == resp.status = 201

\* enroll_in_lesson(lesson_id, bearer_token, attempt_num) once requests.post
\* has produced resp: the return value, whether an exception leaves the
\* function, and the lines printed.
enroll_in_lesson(resp) ==
    IF resp.kind = "exception"
    THEN IF OuterCaught("transport")
         THEN [ret |-> FALSE, raised |-> FALSE, lines |-> <<"Sent", "Error">>]
         ELSE [ret |-> FALSE, raised |-> TRUE, lines |-> <<"Sent">>]
    ELSE IF Created(resp)
    THEN [ret |-> TRUE, raised |-> FALSE,
          lines |-> <<"Sent", "Status", "SUCCESS", "Response">>]
    ELSE LET r == InnerTry(resp.body) IN
         CASE r = "message" ->
                [ret |-> FALSE, raised |-> FALSE, lines |-> <<"Sent", "Status", "message">>]
           [] r = "nothing" ->
                [ret |-> FALSE, raised |-> FALSE, lines |-> <<"Sent", "Status">>]
           [] InnerCaught(r) ->
                [ret |-> FALSE, raised |-> FALSE, lines |-> <<"Sent", "Status", "raw">>]
           [] OTHER ->
                IF OuterCaught(r)
                THEN [ret |-> FALSE, raised |-> FALSE, lines |-> <<"Sent", "Status", "Error">>]
                ELSE [ret |-> FALSE, raised |-> TRUE, lines |-> <<"Sent", "Status">>]

NoOut == [ret |-> FALSE, raised |-> FALSE, lines |-> <<>>]

\* ------------------------------------------------------------------ state
VARIABLES
    pc,              \* position of the main path
    config,          \* get_config: its inputs and, once it has run, its result
    clock,           \* wall clock, ms
    enrollmentFrom,  \* lesson_info["enrollmentFrom"], ms on the clock
    fetchStatus,     \* status code of the lesson-info GET (0: not fetched yet)
    exc,             \* exception that left main, if any
    now,             \* main.py:146
    wait_time,       \* main.py:147, ms
    mainTrace,       \* what the main path did, in order: <<"sleep", ms>>,
                     \* <<"launch", clock>>, <<"retry", max_duration>>
    pre,             \* daemon thread: "idle", "started", "sent", "done"
    preOut,          \* what enroll_in_lesson did for attempt 0
    sent,            \* every enrollment request sent: [num, at, by], by whom:
                     \* "loop" (retry_enrollment) or "pre" (send_pre_request)
    max_duration,    \* retry_enrollment's argument, ms
    start_time,      \* main.py:117
    end_time,        \* main.py:118
    attempt,         \* main.py:122
    received,        \* number of responses the retry loop has received
    first201,        \* which of them was the first 201 (0: none so far)
    lastResp,        \* the response of the latest retry-loop attempt
    lastOut,         \* what enroll_in_lesson did with it
    enrollment_success, \* main.py:184: "none" until retry_enrollment returns
    summary          \* final line printed: "none", "success", "failure"

vars == <<pc, config, clock, enrollmentFrom, fetchStatus, exc, now, wait_time, mainTrace, pre, preOut,
          sent, max_duration, start_time, end_time, attempt, received, first201,
          lastResp, lastOut, enrollment_success, summary>>

waitVars == <<now, wait_time>>
preVars == <<pre, preOut>>
loopVars == <<max_duration, start_time, end_time, attempt, received, first201,
              lastResp, lastOut>>
endVars == <<enrollment_success, summary>>

NoExc == [kind |-> "none", code |-> 0]

\* ------------------------------------------------------------------ get_config
\* None
None == "None"

\* Values of the module constant LESSON_ID (line 8) and what may be typed.
LessonIds == {None, "696048"}
TypedIds == {" 123 ", "456"}
\* Values of the module constant BEARER_TOKEN (line 9), of the environment
\* variable ASVZ_TOKEN (None: unset) and what may be typed at the prompt.
HardcodedTokens == {None, "", "cfg-token"}
EnvTokens == {None, "", "env-token"}
TypedTokens == {" typed-token ", ""}

\* str.strip()
Strip(s) ==
    CASE s = " 123 " -> "123"
      [] s = " typed-token " -> "typed-token"
      [] OTHER -> s

\* truth value of None or a string
Truthy(s) == s \notin {None, ""}

\* a or b
PyOr(a, b) == IF Truthy(a) THEN a ELSE b

\* Mutant of TokenFromConfig: the environment variable is consulted first.
TokenFromConfig_EnvFirst(hardcoded, env) == PyOr(env, hardcoded)

\* line 88: BEARER_TOKEN or os.environ.get("ASVZ_TOKEN")
TokenFromConfig(hardcoded, env) == PyOr(hardcoded, env)

\* The inputs get_config reads.
ConfigInputs ==
    [LESSON_ID : LessonIds, BEARER_TOKEN : HardcodedTokens, ASVZ_TOKEN : EnvTokens,
     typedId : TypedIds, typedToken : TypedTokens,
     lesson_id : {None}, bearer_token : {None}, prompts : {<<>>}]

\* get_config has not been modelled for this run.
NoConfig ==
    [LESSON_ID |-> None, BEARER_TOKEN |-> None, ASVZ_TOKEN |-> None,
     typedId |-> "", typedToken |-> "",
     lesson_id |-> None, bearer_token |-> None, prompts |-> <<>>]

\* get_config (lines 82-92): the values returned and the prompts shown.
get_config(c) ==
    LET askId == c.LESSON_ID = None
        lesson == IF askId THEN Strip(c.typedId) ELSE c.LESSON_ID
        fromConfig == TokenFromConfig(c.BEARER_TOKEN, c.ASVZ_TOKEN)
        askToken == fromConfig = None
        token == IF askToken THEN Strip(c.typedToken) ELSE fromConfig
    IN [c EXCEPT !.lesson_id = lesson,
                 !.bearer_token = token,
                 !.prompts = (IF askId THEN <<"lesson ID">> ELSE <<>>)
                             \o (IF askToken THEN <<"bearer token">> ELSE <<>>)]

InitCommon ==
    /\ clock = 0
    /\ fetchStatus = 0
    /\ exc = NoExc
    /\ now = 0
    /\ wait_time = 0
    /\ mainTrace = <<>>
    /\ pre = "idle"
    /\ preOut = NoOut
    /\ sent = <<>>
    /\ max_duration = 0
    /\ start_time = 0
    /\ end_time = 0
    /\ attempt = 0
    /\ received = 0
    /\ first201 = 0
    /\ lastResp = NoResponse
    /\ lastOut = NoOut
    /\ enrollment_success = "none"
    /\ summary = "none"

\* main() after get_config, about to fetch the lesson info.  The token and
\* the lesson id only label the requests; get_config runs in SpecConfig.
Init ==
    /\ InitCommon
    /\ pc = "fetch"
    /\ config = NoConfig
    /\ enrollmentFrom \in EnrollmentFromSet

\* ------------------------------------------------------------------ main path
\* Mutant of FetchOk: any 2xx status is accepted (response.ok).
FetchOk_Any2xx(status) == status \in 200..299

\* line 20: the status get_lesson_info accepts.
FetchOk(status) == status = 200

\* get_lesson_info (lines 15-24) as called at line 136.
FetchLessonInfo ==
    /\ pc = "fetch"
    /\ \E s \in FetchStatuses, d \in FetchLatencies :
         /\ clock' = clock + d
         /\ fetchStatus' = s
         /\ IF ~FetchOk(s)
            THEN /\ exc' = [kind |-> "fetch", code |-> s]
                 /\ pc' = "raised"
            ELSE /\ exc' = exc
                 /\ pc' = "compute"
    /\ UNCHANGED <<config, enrollmentFrom, waitVars, mainTrace, preVars, sent, loopVars, endVars>>

\* Mutant of WaitTime: the operands of the subtraction are swapped.
WaitTime_Swapped(from, n) == n - from

\* line 147: (enrollment_from_utc - now).total_seconds(), in ms
WaitTime(from, n) == from - n

\* Mutant of NotYetOpen: wait_time >= 0.
NotYetOpen_OrEqual(w) == w >= 0

\* line 149
NotYetOpen(w) == w > 0

\* Mutant of wait_until_pre_request: the offset is not converted from
\* milliseconds to the unit of wait_time.
wait_until_pre_request_Unscaled(w) == w - PRE_REQUEST_OFFSET_MS * 1000

\* lines 155-156
wait_until_pre_request(w) == w - PRE_REQUEST_OFFSET_MS

\* Mutant of HasLeadTime: wait_until_pre_request >= 0.
HasLeadTime_OrEqual(w) == wait_until_pre_request(w) >= 0

\* line 158
HasLeadTime(w) == wait_until_pre_request(w) > 0

\* lines 146-158 and 179-182: the wait computation and the choice of branch.
ComputeWait ==
    /\ pc = "compute"
    /\ now' = clock
    /\ wait_time' = WaitTime(enrollmentFrom, clock)
    /\ LET w == WaitTime(enrollmentFrom, clock)
       IN pc' = IF NotYetOpen(w)
                THEN (IF HasLeadTime(w) THEN "sleep_pre" ELSE "sleep_full")
                ELSE "call_retry"
    /\ UNCHANGED <<clock, config, enrollmentFrom, fetchStatus, exc, mainTrace, preVars, sent, loopVars, endVars>>

\* time.sleep(d): returns no earlier than d after the call.
Sleep(d) ==
    /\ \E j \in SleepJitter : clock' = clock + d + j
    /\ mainTrace' = Append(mainTrace, <<"sleep", d>>)

\* line 160
SleepUntilPreRequest ==
    /\ pc = "sleep_pre"
    /\ Sleep(wait_until_pre_request(wait_time))
    /\ pc' = "launch"
    /\ UNCHANGED <<config, enrollmentFrom, fetchStatus, exc, waitVars, preVars, sent, loopVars, endVars>>

\* lines 163-169: threading.Thread(target=send_pre_request, daemon=True).start()
LaunchPreRequest ==
    /\ pc = "launch"
    /\ pre' = "started"
    /\ mainTrace' = Append(mainTrace, <<"launch", clock>>)
    /\ pc' = "sleep_offset"
    /\ UNCHANGED <<clock, config, enrollmentFrom, fetchStatus, exc, waitVars, preOut, sent, loopVars, endVars>>

\* Mutant of SleepOffset: the remaining sleep is left out.
SleepOffset_Skipped ==
    /\ pc = "sleep_offset"
    /\ pc' = "call_retry"
    /\ UNCHANGED <<clock, mainTrace, config, enrollmentFrom, fetchStatus, exc, waitVars, preVars,
                   sent, loopVars, endVars>>

\* Mutant of SleepOffset: the main path joins the pre-request thread before
\* the remaining sleep (pre_request_thread.join()).
SleepOffset_Joined ==
    /\ pc = "sleep_offset"
    /\ pre = "done"
    /\ Sleep(PRE_REQUEST_OFFSET_MS)
    /\ pc' = "call_retry"
    /\ UNCHANGED <<config, enrollmentFrom, fetchStatus, exc, waitVars, preVars, sent,
                   loopVars, endVars>>

\* line 172
SleepOffset ==
    /\ pc = "sleep_offset"
    /\ Sleep(PRE_REQUEST_OFFSET_MS)
    /\ pc' = "call_retry"
    /\ UNCHANGED <<config, enrollmentFrom, fetchStatus, exc, waitVars, preVars, sent, loopVars, endVars>>

\* line 178
SleepFullWait ==
    /\ pc = "sleep_full"
    /\ Sleep(wait_time)
    /\ pc' = "call_retry"
    /\ UNCHANGED <<config, enrollmentFrom, fetchStatus, exc, waitVars, preVars, sent, loopVars, endVars>>

\* ------------------------------------------------------------------ retry_enrollment
\* lines 117-122: entry of retry_enrollment(lesson_id, bearer_token, d).
RetryEnter(d) ==
    /\ max_duration' = d
    /\ start_time' = clock
    /\ end_time' = clock + d
    /\ attempt' = 0
    /\ mainTrace' = Append(mainTrace, <<"retry", d>>)
    /\ pc' = "loop"
    /\ UNCHANGED <<clock, config, enrollmentFrom, fetchStatus, exc, waitVars, preVars, sent, received,
                   first201, lastResp, lastOut, endVars>>

\* line 184: main calls retry_enrollment with MAX_RETRY_DURATION.
CallRetry ==
    /\ pc = "call_retry"
    /\ RetryEnter(Ms(MAX_RETRY_DURATION))

\* Mutant of DeadlineOpen: time.time() <= end_time.
DeadlineOpen_OrEqual == clock <= end_time

\* line 123: the deadline check at loop top.
DeadlineOpen == clock < end_time

\* Mutant of NextAttempt: the counter is not incremented.
NextAttempt_Same(a) == a

\* line 124: attempt += 1
NextAttempt(a) == a + 1

\* lines 123-125 and 46-50: deadline check; then either the next attempt is
\* numbered and its request sent, or (line 128) the function returns False.
LoopTop ==
    /\ pc = "loop"
    /\ IF DeadlineOpen
       THEN /\ attempt' = NextAttempt(attempt)
            /\ sent' = Append(sent, [num |-> NextAttempt(attempt), at |-> clock,
                                     by |-> "loop"])
            /\ pc' = "posting"
            /\ UNCHANGED enrollment_success
       ELSE /\ enrollment_success' = "false"
            /\ pc' = "summary"
            /\ UNCHANGED <<attempt, sent>>
    /\ UNCHANGED <<clock, config, enrollmentFrom, fetchStatus, exc, waitVars, mainTrace, preVars,
                   max_duration, start_time, end_time, received, first201, lastResp,
                   lastOut, summary>>

\* Mutant of LoopReturnsTrue: the result of the attempt is ignored.
LoopReturnsTrue_Never(out) == FALSE

\* Mutant of LoopReturnsTrue: a success counts only before the deadline.
LoopReturnsTrue_BeforeDeadline(out) == out.ret /\ clock' < end_time

\* lines 125-126: if enroll_in_lesson(...): return True
LoopReturnsTrue(out) == out.ret

\* lines 50-69 and 125-126: the POST returns (or raises) and enroll_in_lesson
\* finishes; retry_enrollment returns True or goes back to loop top.
LoopResponse ==
    /\ pc = "posting"
    /\ \E resp \in Responses, d \in Latencies :
         /\ attempt <= MaxFastAttempts \/ d > 0
         /\ clock' = clock + d
         /\ lastResp' = resp
         /\ received' = received + 1
         /\ first201' = IF first201 = 0 /\ resp.kind = "http" /\ resp.status = 201
                        THEN received + 1 ELSE first201
         /\ LET out == enroll_in_lesson(resp) IN
              /\ lastOut' = out
              /\ IF out.raised
                 THEN /\ exc' = [kind |-> "enroll", code |-> resp.status]
                      /\ pc' = "raised"
                      /\ UNCHANGED enrollment_success
                 ELSE /\ exc' = exc
                      /\ IF LoopReturnsTrue(out)
                         THEN /\ enrollment_success' = "true"
                              /\ pc' = "summary"
                         ELSE /\ pc' = "loop"
                              /\ UNCHANGED enrollment_success
    /\ UNCHANGED <<config, enrollmentFrom, fetchStatus, waitVars, mainTrace, preVars, sent,
                   max_duration, start_time, end_time, attempt, summary>>

\* Mutant of PrintSummary: a success of the pre-request counts as well.
PrintSummary_PreCounts ==
    /\ pc = "summary"
    /\ summary' = IF enrollment_success = "true" \/ preOut.ret
                  THEN "success" ELSE "failure"
    /\ pc' = "done"
    /\ UNCHANGED <<config, clock, enrollmentFrom, fetchStatus, exc, waitVars, mainTrace,
                   preVars, sent, loopVars, enrollment_success>>

\* lines 186-189: the final summary; the process then exits.
PrintSummary ==
    /\ pc = "summary"
    /\ summary' = IF enrollment_success = "true" THEN "success" ELSE "failure"
    /\ pc' = "done"
    /\ UNCHANGED <<clock, config, enrollmentFrom, fetchStatus, exc, waitVars, mainTrace, preVars, sent,
                   loopVars, enrollment_success>>

\* ------------------------------------------------------------------ daemon thread
\* Mutant of ProcessAlive: the thread is not a daemon (daemon=False), so it
\* keeps running after the main path has ended.
ProcessAlive_NonDaemon == TRUE

\* The daemon thread runs only while the process lives.
ProcessAlive == pc \notin {"done", "raised"}

\* line 112: attempt_num=0
PreAttemptNum == 0

\* lines 111-112 and 46-50: send_pre_request logs and sends attempt 0.
PreSend ==
    /\ ProcessAlive
    /\ pre = "started"
    /\ pre' = "sent"
    /\ sent' = Append(sent, [num |-> PreAttemptNum, at |-> clock, by |-> "pre"])
    /\ UNCHANGED <<pc, clock, config, enrollmentFrom, fetchStatus, exc, waitVars, mainTrace, preOut,
                   loopVars, endVars>>

\* lines 50-69: the pre-request's POST returns (or raises); the thread ends.
PreResponse ==
    /\ ProcessAlive
    /\ pre = "sent"
    /\ \E resp \in Responses :
         preOut' = enroll_in_lesson(resp)
    /\ pre' = "done"
    /\ UNCHANGED <<pc, clock, config, enrollmentFrom, fetchStatus, exc, waitVars, mainTrace, sent,
                   loopVars, endVars>>

\* ------------------------------------------------------------------ specifications
Next ==
    \/ FetchLessonInfo
    \/ ComputeWait
    \/ SleepUntilPreRequest
    \/ LaunchPreRequest
    \/ SleepOffset
    \/ SleepFullWait
    \/ CallRetry
    \/ LoopTop
    \/ LoopResponse
    \/ PrintSummary
    \/ PreSend
    \/ PreResponse

Spec == Init /\ [][Next]_vars

\* The steps of the main path.
MainNext ==
    \/ FetchLessonInfo
    \/ ComputeWait
    \/ SleepUntilPreRequest
    \/ LaunchPreRequest
    \/ SleepOffset
    \/ SleepFullWait
    \/ CallRetry
    \/ LoopTop
    \/ LoopResponse
    \/ PrintSummary

\* The main path keeps running: its GET, its sleeps and its POSTs return.
\* Nothing is assumed of the daemon thread.
\* Started with an opening instant that is already reached (or passed, after
\* a slow fetch) or one that leaves the lead time (or exactly it).
InitLive == Init /\ enrollmentFrom \in {0, 375}

SpecLive == InitLive /\ [][Next]_vars /\ WF_vars(MainNext)

\* retry_enrollment on its own: called with any max_duration of Durations.
InitRetry ==
    /\ InitCommon
    /\ pc = "harness"
    /\ config = NoConfig
    /\ enrollmentFrom = 0

HarnessCall ==
    /\ pc = "harness"
    /\ \E d \in Durations : RetryEnter(d)

NextRetry ==
    \/ HarnessCall
    \/ LoopTop
    \/ LoopResponse

SpecRetry == InitRetry /\ [][NextRetry]_vars

\* get_config on its own (line 133): main starts with any configuration,
\* environment and typed input.
InitConfig ==
    /\ InitCommon
    /\ pc = "config"
    /\ config \in ConfigInputs
    /\ enrollmentFrom = 0

\* line 133
GetConfig ==
    /\ pc = "config"
    /\ config' = get_config(config)
    /\ pc' = "fetch"
    /\ UNCHANGED <<clock, enrollmentFrom, fetchStatus, exc, waitVars, mainTrace, preVars,
                   sent, loopVars, endVars>>

NextConfig == GetConfig

SpecConfig == InitConfig /\ [][NextConfig]_vars

\* ------------------------------------------------------------------ properties
\* The retry-loop requests (numbers >= 1) and the pre-requests (number 0) sent.
LoopSent == SelectSeq(sent, LAMBDA e : e.num >= 1)
PreSent == SelectSeq(sent, LAMBDA e : e.num = 0)

\* The wait computation of main (lines 146-147) has run.
WaitComputed == pc \notin {"config", "fetch", "compute", "harness"} /\ exc.kind # "fetch"

\* retry_enrollment has been entered.
RetryStarted == \E i \in 1..Len(mainTrace) : mainTrace[i][1] = "retry"

\* mainTrace without the clock readings of the launch events.
TraceShape ==
    [i \in 1..Len(mainTrace) |->
        IF mainTrace[i][1] = "launch" THEN <<"launch", 0>> ELSE mainTrace[i]]

\* C1: when the k-th response of the retry loop is its first 201,
\* retry_enrollment returns True after exactly k attempts: k requests were
\* sent, none is numbered above k, and the loop is over.
C1_SuccessAtFirst201 ==
    first201 > 0 =>
        /\ enrollment_success = "true"
        /\ pc \in {"summary", "done"}
        /\ attempt = first201
        /\ received = first201
        /\ Len(LoopSent) = first201
        /\ \A i \in 1..Len(sent) : sent[i].num <= first201

\* [.., .., .., 201]: success at the fourth attempt.
C1_Witness == first201 = 4 /\ enrollment_success = "true" /\ attempt = 4

\* C2: without a 201 retry_enrollment returns False, and only from a loop-top
\* check that finds the budget used up; no attempt starts at or after
\* start_time + max_duration, so a budget of 0 sends nothing.
C2_TimedOut ==
    /\ (enrollment_success # "none" /\ first201 = 0) => enrollment_success = "false"
    /\ enrollment_success = "false" =>
          /\ first201 = 0
          /\ clock - start_time >= max_duration
          /\ pc \in {"summary", "done"}
    /\ \A i \in 1..Len(sent) :
          sent[i].num >= 1 => sent[i].at < start_time + max_duration
    /\ (RetryStarted /\ max_duration = 0) => LoopSent = <<>>

\* The budget ran out after several rejected attempts.
C2_Witness ==
    enrollment_success = "false" /\ attempt >= 2 /\ received = attempt /\ max_duration > 0

\* C3: no retry-loop attempt is sent before the enrollment-open instant, and
\* the loop itself does not start before it.
C3_NotBeforeOpening ==
    /\ RetryStarted => start_time >= enrollmentFrom
    /\ \A i \in 1..Len(sent) : sent[i].num >= 1 => sent[i].at >= enrollmentFrom

\* Attempt 1 was sent after a wait.
C3_Witness == wait_time > 0 /\ \E i \in 1..Len(sent) : sent[i].num = 1

\* What the main path does for a wait w above the lead time.
C4_Expected(w) ==
    << <<"sleep", w - PRE_REQUEST_OFFSET_MS>>, <<"launch", 0>>,
       <<"sleep", PRE_REQUEST_OFFSET_MS>>, <<"retry", Ms(MAX_RETRY_DURATION)>> >>

\* C4: for a wait above the lead time the main path sleeps w - L, launches
\* one pre-request thread, sleeps L and enters the retry loop, in this order
\* and whatever has become of the pre-request.
C4_LeadTimeBranch ==
    (WaitComputed /\ wait_time > PRE_REQUEST_OFFSET_MS) =>
        /\ Len(mainTrace) = CASE pc = "sleep_pre" -> 0
                              [] pc = "launch" -> 1
                              [] pc = "sleep_offset" -> 2
                              [] pc = "call_retry" -> 3
                              [] OTHER -> 4
        /\ TraceShape = SubSeq(C4_Expected(wait_time), 1, Len(mainTrace))
        /\ (pre # "idle") <=> (Len(mainTrace) >= 2)
        /\ Len(PreSent) <= 1
        /\ pc = "call_retry" => ENABLED CallRetry

\* The loop has started while the pre-request is still unanswered.
C4_Witness ==
    wait_time > PRE_REQUEST_OFFSET_MS /\ pc = "loop" /\ attempt = 0 /\ pre = "sent"

\* C5: for a wait 0 < w <= L no pre-request thread is launched and no attempt 0
\* is sent; the main path sleeps the whole w and enters the retry loop.
C5_NoLeadTime ==
    (WaitComputed /\ wait_time > 0 /\ wait_time <= PRE_REQUEST_OFFSET_MS) =>
        /\ pre = "idle"
        /\ PreSent = <<>>
        /\ Len(mainTrace) = CASE pc = "sleep_full" -> 0
                              [] pc = "call_retry" -> 1
                              [] OTHER -> 2
        /\ mainTrace = SubSeq(<< <<"sleep", wait_time>>,
                                 <<"retry", Ms(MAX_RETRY_DURATION)>> >>,
                              1, Len(mainTrace))

\* The wait equals the lead time and the loop runs.
C5_Witness ==
    WaitComputed /\ wait_time = PRE_REQUEST_OFFSET_MS /\ pc = "posting" /\ attempt = 1

\* C6: for a wait w <= 0 the main path sleeps nowhere, launches no pre-request,
\* and its next step after the wait computation is the call of retry_enrollment.
C6_AlreadyOpen ==
    (WaitComputed /\ wait_time <= 0) =>
        /\ pre = "idle"
        /\ PreSent = <<>>
        /\ \/ pc = "call_retry" /\ mainTrace = <<>> /\ clock = now
           \/ /\ pc \in {"loop", "posting", "summary", "done"}
              /\ mainTrace = << <<"retry", Ms(MAX_RETRY_DURATION)>> >>
              /\ start_time = now

\* Enrollment opens at the very instant of the computation (w = 0).
C6_Witness == WaitComputed /\ wait_time = 0 /\ pc = "loop" /\ attempt = 0

\* C7 as stated: the pre-request is never in flight while the retry loop runs.
C7_NoOverlap == ~(pre = "sent" /\ pc \in {"loop", "posting"})

\* C7, amended: the pre-request thread is launched at least the lead time
\* before the retry loop starts, never once it has started (its request may
\* still be in flight while the loop runs).
C7_LaunchPrecedesLoop ==
    /\ pre # "idle" => \E j \in 1..Len(mainTrace) : mainTrace[j][1] = "launch"
    /\ \A i, j \in 1..Len(mainTrace) :
          (mainTrace[i][1] = "retry" /\ mainTrace[j][1] = "launch") =>
              /\ j < i
              /\ mainTrace[j][2] + PRE_REQUEST_OFFSET_MS <= start_time

\* Attempt 0 is in flight while the loop has its second attempt in flight.
C7_Witness == pre = "sent" /\ pc = "posting" /\ attempt = 2

\* C8: a lesson-info status other than 200 raises an exception carrying that
\* status out of main; nothing was slept, launched, sent or summarised.
C8_FetchErrorFatal ==
    fetchStatus \notin {0, 200} =>
        /\ pc = "raised"
        /\ exc = [kind |-> "fetch", code |-> fetchStatus]
        /\ mainTrace = <<>>
        /\ pre = "idle"
        /\ sent = <<>>
        /\ enrollment_success = "none"
        /\ summary = "none"

\* The lesson-info read answered 404.
C8_Witness == fetchStatus = 404 /\ pc = "raised"

\* Bodies without a usable structured errors list.
Malformed == Bodies \ {"obj_errors_msg"}

\* C9 as stated: a 422 with a malformed body does not raise, returns failure
\* and prints the raw response text.
C9_MalformedFallsBackToRaw ==
    (lastResp.kind = "http" /\ lastResp.status = 422 /\ lastResp.body \in Malformed) =>
        /\ ~lastOut.raised
        /\ ~lastOut.ret
        /\ \E i \in 1..Len(lastOut.lines) : lastOut.lines[i] = "raw"

\* C10: no outcome of an attempt leaves retry_enrollment as an exception;
\* every non-201 outcome returns failure and consumes exactly one attempt; and
\* at loop top with the deadline not reached the next step is the next attempt.
C10_Absorbed ==
    /\ [](pc # "raised" /\ exc.kind # "enroll")
    /\ []((received > 0 /\ lastResp.status # 201) => (~lastOut.ret /\ ~lastOut.raised))
    /\ [](pc = "loop" => attempt = received /\ Len(LoopSent) = attempt)
    /\ [][(pc = "loop" /\ clock < start_time + max_duration) =>
            (pc' = "posting" /\ attempt' = attempt + 1 /\ Len(sent') = Len(sent) + 1)]_vars

\* A transport error was absorbed and the third attempt is in flight.
C10_Witness == pc = "posting" /\ attempt = 3 /\ lastResp.kind = "exception"

\* get_config has returned.
ConfigDone == pc # "config" /\ config # NoConfig

\* A value is there: not None.
Present(s) == s # None

\* C11 as stated: the environment variable wins over the hardcoded value,
\* which wins over the prompt; the prompt is used only when neither is there.
C11_EnvFirst ==
    ConfigDone =>
        /\ config.bearer_token =
              IF Present(config.ASVZ_TOKEN) THEN config.ASVZ_TOKEN
              ELSE IF Present(config.BEARER_TOKEN) THEN config.BEARER_TOKEN
              ELSE Strip(config.typedToken)
        /\ (\E i \in 1..Len(config.prompts) : config.prompts[i] = "bearer token")
              <=> (~Present(config.ASVZ_TOKEN) /\ ~Present(config.BEARER_TOKEN))

\* C11, amended: a non-empty hardcoded value wins; otherwise the environment
\* variable, if set (even empty); the prompt is used exactly when the
\* hardcoded value is None or empty and the environment variable is unset.
C11_HardcodedFirst ==
    ConfigDone =>
        /\ config.bearer_token =
              IF config.BEARER_TOKEN \notin {None, ""} THEN config.BEARER_TOKEN
              ELSE IF config.ASVZ_TOKEN # None THEN config.ASVZ_TOKEN
              ELSE Strip(config.typedToken)
        /\ (\E i \in 1..Len(config.prompts) : config.prompts[i] = "bearer token")
              <=> (config.BEARER_TOKEN \in {None, ""} /\ config.ASVZ_TOKEN = None)

\* Both a hardcoded value and an environment value are there.
C11_Witness ==
    /\ ConfigDone
    /\ config.BEARER_TOKEN = "cfg-token"
    /\ config.ASVZ_TOKEN = "env-token"
    /\ config.bearer_token = "cfg-token"

\* C12: the n-th request of the retry loop carries number n; number 0 is
\* carried by the pre-request only, and by at most one request of the run.
C12_AttemptNumbers ==
    /\ \A i \in 1..Len(sent) :
          /\ sent[i].by = "loop" =>
                sent[i].num = Cardinality({j \in 1..i : sent[j].by = "loop"})
          /\ sent[i].num = 0 <=> sent[i].by = "pre"
    /\ Cardinality({i \in 1..Len(sent) : sent[i].num = 0}) <= 1
    /\ attempt = Cardinality({i \in 1..Len(sent) : sent[i].by = "loop"})

\* Attempts 1, 2, 3 and the pre-request have all been sent.
C12_Witness ==
    /\ Cardinality({i \in 1..Len(sent) : sent[i].by = "loop"}) = 3
    /\ \E i \in 1..Len(sent) : sent[i].num = 0

\* C13 as stated: once a pre-request is dispatched, attempt 0 is sent before
\* the retry loop sends attempt 1.
C13_PreSentFirst ==
    \A i \in 1..Len(sent) :
        (pre # "idle" /\ sent[i].num = 1) => \E j \in 1..(i - 1) : sent[j].num = 0

\* C13, amended: the pre-request thread is launched strictly before the retry
\* loop sends attempt 1, at least the lead time earlier; when the thread sends
\* attempt 0 is not ordered with attempt 1.
C13_LaunchBeforeFirstAttempt ==
    \A i \in 1..Len(sent) :
        (pre # "idle" /\ sent[i].by = "loop") =>
            \E j \in 1..Len(mainTrace) :
                /\ mainTrace[j][1] = "launch"
                /\ mainTrace[j][2] + PRE_REQUEST_OFFSET_MS <= sent[i].at

\* Attempt 1 has been sent while the launched thread has not sent attempt 0.
C13_Witness ==
    pre = "started" /\ \E i \in 1..Len(sent) : sent[i].num = 1

\* Some attempt of the run, the pre-request included, has received a 201.
Any201 == first201 > 0 \/ (pre = "done" /\ preOut.ret)

\* C14 as stated: once any attempt, the pre-request included, has received a
\* 201, no further enrollment request is sent.
C14_NothingAfterAny201 == [][Any201 => sent' = sent]_vars

\* C14, amended: once an attempt of the retry loop has received a 201, the
\* retry loop sends no further attempt (a 201 of the pre-request stops nothing).
C14_LoopStopsAt201 ==
    [][first201 > 0 => /\ LoopSent' = LoopSent
                       /\ attempt' = attempt
                       /\ pc' \in {"summary", "done"}]_vars

\* The loop has succeeded at its second attempt and returned.
C14_Witness == first201 = 2 /\ pc = "done" /\ Len(LoopSent) = 2

\* C15 as stated: when a pre-request was dispatched, its response (or error)
\* has been received and logged by the time the final summary is printed.
C15_PreCompletesFirst == (pre # "idle" /\ summary # "none") => pre = "done"

\* C15, amended: the main path ends without waiting for the pre-request, and
\* once it has ended the thread does nothing more: an attempt 0 not yet sent
\* stays unsent, one not yet answered stays unlogged.
C15_ThreadDiesWithProcess ==
    [][pc = "done" => (pre' = pre /\ preOut' = preOut /\ sent' = sent)]_vars

\* The process has exited with attempt 0 still unanswered.
C15_Witness == pc = "done" /\ summary # "none" /\ pre = "sent"

\* C16: the final summary says success exactly when an attempt of the retry
\* loop received a 201; with a 201 for the pre-request only, the loop runs to
\* its deadline and the summary says failure.
C16_SummaryFollowsLoop ==
    summary # "none" =>
        /\ summary \in {"success", "failure"}
        /\ summary = "success" <=> first201 > 0
        /\ summary = "failure" =>
              /\ enrollment_success = "false"
              /\ clock - start_time >= Ms(MAX_RETRY_DURATION)
              /\ \A i \in 1..Len(sent) : sent[i].by = "loop" => sent[i].at < end_time

\* Only the pre-request was answered 201, and the summary says failure.
C16_Witness ==
    summary = "failure" /\ pre = "done" /\ preOut.ret /\ attempt >= 1

\* C17: a 201 for an attempt started before the deadline makes
\* retry_enrollment return True even when it arrives after the deadline, and
\* retry_enrollment never returns False while an attempt is in flight.
C17_DeadlineOnlyAtLoopTop ==
    /\ (first201 > 0 /\ clock > end_time) => enrollment_success = "true"
    /\ pc = "posting" => (enrollment_success = "none" /\ attempt = received + 1)
    /\ enrollment_success = "false" => (attempt = received /\ first201 = 0)

\* The last attempt started before the deadline, its 201 came after it.
C17_Witness ==
    /\ first201 > 0
    /\ clock > end_time
    /\ sent[Len(sent)].at < end_time
    /\ enrollment_success = "true"

\* C18: after a successful fetch the main path ends with a final summary; the
\* summary is printed once and never changes, and the main path is at its end
\* only with a summary printed.  No step of the daemon thread is needed.
C18_MainTerminates ==
    /\ (fetchStatus = 200) ~> (pc = "done" /\ summary \in {"success", "failure"})
    /\ [][summary # "none" => summary' = summary]_vars
    /\ [](pc = "done" <=> summary # "none")

\* The main path has ended while the launched thread never ran.
C18_Witness == pc = "done" /\ summary = "failure" /\ pre = "started"

====
